---- MODULE Spec2Model ----
(***************************************************************************)
(* Model of deploy.py: configuration loading from .env files into the      *)
(* process environment, module-level configuration and validation, and    *)
(* the eight-step deploy() pipeline acting on the docker image store, the  *)
(* container registry and the Kubernetes cluster.                          *)
(*                                                                         *)
(* A string is a sequence of symbols.  A symbol is one character ("=",     *)
(* "#", " ", "/", ":") or an indivisible run of characters ("shop",        *)
(* "DEPLOY_").  The placeholder tokens and the environment keys are split  *)
(* into symbols wherever they share characters with each other, so that    *)
(* substring search on symbols finds what substring search on characters   *)
(* finds for every string the model builds.                                *)
(***************************************************************************)
EXTENDS Integers, Sequences, FiniteSets, TLC

VARIABLES
    fs,          \* the file system: path -> content, defined on existing paths
    env0,        \* the environment the process is started with
    gitOut,      \* stdout of "git rev-parse --short HEAD"
    environ,     \* os.environ of the running process
    loaded,      \* the paths load_env_file has been called with, in order
    pc,          \* position of the process
    cfg,         \* the module-level configuration constants
    image_tag,   \* deploy(): image_tag
    image_latest,\* deploy(): image_latest
    manifest,    \* deploy(): the rendered manifest
    calls,       \* external invocations of this run: [step, cmd, fault, ok];
                 \* fault: the environment made the command fail
    started,     \* started[k]: how many times step k began in this run
    outcome,     \* how the process ended ("" while it runs)
    named,       \* the configuration keys the FATAL message names
    failed,      \* the command the failure message names
    stderr,      \* e.stderr of the CalledProcessError that was raised
    reported,    \* the text of the "Error:" line the handler printed
    exitCode,    \* exit status of the process; NotExited while it runs
    images,      \* docker: the local image store
    login,       \* docker: the stored registry login
    registry,    \* the image references published in the registry
    namespaces,  \* cluster: the namespaces
    secrets,     \* cluster: namespace -> pull secret
    applied,     \* cluster: the manifests applied, in order
    runs,        \* how many times the script has been started
    history,     \* how the earlier runs ended, in order
    external0,   \* the registry and the cluster before the first run
    faulty       \* the runs in which the environment may make a command fail

vars == <<fs, env0, gitOut, environ, loaded, pc, cfg, image_tag, image_latest,
          manifest, calls, started, outcome, named, failed, stderr, reported,
          exitCode, images, login, registry, namespaces, secrets, applied, runs,
          history, external0, faulty>>

world == <<fs, env0, gitOut, external0, faulty>>
report == <<failed, stderr, reported>>
session == <<runs, history>>
external == <<images, login, registry, namespaces, secrets, applied>>

(***************************************************************************)
(* Strings                                                                 *)
(***************************************************************************)
Range(s) == {s[i] : i \in 1..Len(s)}

\* what str.strip() removes
Whitespace == {" ", "\t", "\n", "\r"}

RECURSIVE LStrip(_)
LStrip(s) == IF s # <<>> /\ Head(s) \in Whitespace THEN LStrip(Tail(s)) ELSE s

RECURSIVE RStrip(_)
RStrip(s) ==
    IF s # <<>> /\ s[Len(s)] \in Whitespace THEN RStrip(SubSeq(s, 1, Len(s) - 1)) ELSE s

Strip(s) == RStrip(LStrip(s))

\* str.find: the least index at which sub occurs in s, 0 when it does not
Find(s, sub) ==
    LET at == {i \in 1..(Len(s) - Len(sub) + 1) : SubSeq(s, i, i + Len(sub) - 1) = sub}
    IN  IF at = {} THEN 0 ELSE CHOOSE i \in at : \A j \in at : i <= j

\* str.replace(old, new) for a non-empty old: left to right, non-overlapping
RECURSIVE Replace(_, _, _)
Replace(s, old, new) ==
    LET i == Find(s, old)
    IN  IF i = 0 THEN s
        ELSE SubSeq(s, 1, i - 1) \o new
             \o Replace(SubSeq(s, i + Len(old), Len(s)), old, new)

\* " ".join(parts)
RECURSIVE Join(_)
Join(parts) ==
    IF parts = <<>> THEN <<>>
    ELSE IF Len(parts) = 1 THEN parts[1]
    ELSE parts[1] \o <<" ">> \o Join(Tail(parts))

(***************************************************************************)
(* Environment keys                                                        *)
(***************************************************************************)
K_SERVICE_NAME == <<"DEPLOY_", "SERVICE_", "NAME">>
K_NAMESPACE == <<"DEPLOY_", "NAME", "SPACE">>
K_DOMAIN == <<"DEPLOY_", "DOMAIN">>
K_GITHUB_OWNER == <<"DEPLOY_", "GITHUB_OWNER">>
K_REGISTRY == <<"DEPLOY_", "REGISTRY">>
K_VPS_ENV_PATH == <<"DEPLOY_", "VPS_ENV_PATH">>
K_GITHUB_TOKEN == <<"GITHUB_TOKEN">>
K_VITE_DATABASE_API_URL == <<"VITE_", "DATABASE_API_URL">>
K_VITE_API_URL == <<"VITE_", "API_URL">>
K_VITE_GOOGLE_CLIENT_ID == <<"VITE_", "GOOGLE_CLIENT_ID">>

\* an environment without variables
NoEnv == [k \in {} |-> <<>>]

\* os.getenv(key, default)
getenv(env, key, default) == IF key \in DOMAIN env THEN env[key] ELSE default

\* os.environ.setdefault(key, value): a key already set keeps its value
setdefault(env, key, value) ==
    [k \in (DOMAIN env) \cup {key} |-> IF k \in DOMAIN env THEN env[k] ELSE value]

\* os.environ[key] = value
setenv(env, key, value) ==
    [k \in (DOMAIN env) \cup {key} |-> IF k = key THEN value ELSE env[k]]

(***************************************************************************)
(* load_env_file                                                           *)
(***************************************************************************)
NoPair == <<>>

\* one line of a .env file: <<key, value>>, or NoPair when the line is skipped
parse_line(raw) ==
    LET line == Replace(Strip(raw), <<"\r">>, <<>>)
        eq == Find(line, <<"=">>)
    IN  IF line # <<>> /\ Head(line) # "#" /\ eq # 0
        THEN <<Strip(SubSeq(line, 1, eq - 1)), Strip(SubSeq(line, eq + 1, Len(line)))>>
        ELSE NoPair

\* the loop over the lines; err is the OSError os.environ raises for an empty key
RECURSIVE load_lines(_, _)
load_lines(st, lines) ==
    IF lines = <<>> \/ st.err THEN st
    ELSE LET kv == parse_line(Head(lines))
         IN  IF kv = NoPair THEN load_lines(st, Tail(lines))
             ELSE IF kv[1] = <<>> THEN [st EXCEPT !.err = TRUE]
             ELSE load_lines([st EXCEPT !.environ = setenv(st.environ, kv[1], kv[2])],
                             Tail(lines))

\* the file replaces the environment instead of updating it
load_env_file_replacing(st, path) ==
    IF st.err THEN st
    ELSE load_lines([st EXCEPT !.loaded = Append(st.loaded, path), !.environ = NoEnv],
                    fs[path])

load_env_file(st, path) ==
    IF st.err THEN st
    ELSE load_lines([st EXCEPT !.loaded = Append(st.loaded, path)], fs[path])

(***************************************************************************)
(* load_env                                                                *)
(***************************************************************************)
LOCAL_ENV == <<".env">>
DefaultVpsEnv(service_name) == <<"/etc/">> \o service_name \o <<"/.env">>
Exists(path) == path \in DOMAIN fs

\* load_env with "return False" as its last line
load_env_override_only(env) ==
    LET s0 == [environ |-> env, loaded |-> <<>>, err |-> FALSE, ret |-> FALSE]
        s1 == IF Exists(LOCAL_ENV) THEN load_env_file(s0, LOCAL_ENV) ELSE s0
        vps_env_path == getenv(s1.environ, K_VPS_ENV_PATH, <<>>)
        service_name == getenv(s1.environ, K_SERVICE_NAME, <<"frontend">>)
        default_vps_env == DefaultVpsEnv(service_name)
    IN  IF s1.err THEN s1
        ELSE IF vps_env_path # <<>> /\ Exists(vps_env_path)
        THEN [load_env_file(s1, vps_env_path) EXCEPT !.ret = TRUE]
        ELSE IF Exists(default_vps_env)
        THEN [load_env_file(s1, default_vps_env) EXCEPT !.ret = TRUE]
        ELSE s1

\* load_env without the "return True" that follows the explicit override
load_env_both(env) ==
    LET s0 == [environ |-> env, loaded |-> <<>>, err |-> FALSE, ret |-> FALSE]
        s1 == IF Exists(LOCAL_ENV) THEN load_env_file(s0, LOCAL_ENV) ELSE s0
        vps_env_path == getenv(s1.environ, K_VPS_ENV_PATH, <<>>)
        s2 == IF ~s1.err /\ vps_env_path # <<>> /\ Exists(vps_env_path)
              THEN [load_env_file(s1, vps_env_path) EXCEPT !.ret = TRUE] ELSE s1
        service_name == getenv(s2.environ, K_SERVICE_NAME, <<"frontend">>)
        default_vps_env == DefaultVpsEnv(service_name)
    IN  IF s2.err THEN s2
        ELSE IF Exists(default_vps_env)
        THEN [load_env_file(s2, default_vps_env) EXCEPT !.ret = TRUE]
        ELSE [s2 EXCEPT !.ret = s2.ret \/ Exists(LOCAL_ENV)]

\* [environ, loaded, err, ret]: the environment after load_env, the files it
\* loaded, whether it raised, and its return value
load_env(env) ==
    LET s0 == [environ |-> env, loaded |-> <<>>, err |-> FALSE, ret |-> FALSE]
        s1 == IF Exists(LOCAL_ENV) THEN load_env_file(s0, LOCAL_ENV) ELSE s0
        vps_env_path == getenv(s1.environ, K_VPS_ENV_PATH, <<>>)
        service_name == getenv(s1.environ, K_SERVICE_NAME, <<"frontend">>)
        default_vps_env == DefaultVpsEnv(service_name)
    IN  IF s1.err THEN s1
        ELSE IF vps_env_path # <<>> /\ Exists(vps_env_path)
        THEN [load_env_file(s1, vps_env_path) EXCEPT !.ret = TRUE]
        ELSE IF Exists(default_vps_env)
        THEN [load_env_file(s1, default_vps_env) EXCEPT !.ret = TRUE]
        ELSE [s1 EXCEPT !.ret = Exists(LOCAL_ENV)]

(***************************************************************************)
(* Module-level configuration and validation                               *)
(***************************************************************************)
NoConfig ==
    [SERVICE_NAME |-> <<>>, NAMESPACE |-> <<>>, DOMAIN_ |-> <<>>, GITHUB_OWNER |-> <<>>,
     REGISTRY |-> <<>>, IMAGE_NAME |-> <<>>, GITHUB_TOKEN |-> <<>>,
     VITE_DATABASE_API_URL |-> <<>>, VITE_API_URL |-> <<>>, VITE_GOOGLE_CLIENT_ID |-> <<>>]

configure(env) ==
    LET SERVICE_NAME == getenv(env, K_SERVICE_NAME, <<"frontend">>)
        NAMESPACE == getenv(env, K_NAMESPACE, SERVICE_NAME)
        DOMAIN_ == getenv(env, K_DOMAIN, <<>>)
        GITHUB_OWNER == getenv(env, K_GITHUB_OWNER, <<>>)
        REGISTRY == getenv(env, K_REGISTRY, <<"ghcr.io/">> \o GITHUB_OWNER)
    IN  [SERVICE_NAME |-> SERVICE_NAME,
         NAMESPACE |-> NAMESPACE,
         DOMAIN_ |-> DOMAIN_,
         GITHUB_OWNER |-> GITHUB_OWNER,
         REGISTRY |-> REGISTRY,
         IMAGE_NAME |-> REGISTRY \o <<"/">> \o SERVICE_NAME,
         GITHUB_TOKEN |-> getenv(env, K_GITHUB_TOKEN, <<>>),
         VITE_DATABASE_API_URL |-> getenv(env, K_VITE_DATABASE_API_URL, <<>>),
         VITE_API_URL |-> getenv(env, K_VITE_API_URL, <<>>),
         VITE_GOOGLE_CLIENT_ID |-> getenv(env, K_VITE_GOOGLE_CLIENT_ID, <<>>)]

\* the validation with the owner checked before the token
validate_owner_first(c) ==
    IF c.GITHUB_OWNER = <<>> THEN {K_GITHUB_OWNER}
    ELSE IF c.GITHUB_TOKEN = <<>> THEN {K_GITHUB_TOKEN}
    ELSE IF c.DOMAIN_ = <<>> THEN {K_DOMAIN}
    ELSE {}

\* validation only of the domain
validate_domain_only(c) == IF c.DOMAIN_ = <<>> THEN {K_DOMAIN} ELSE {}

\* the keys the FATAL message of the validation names; {} when validation passes
validate(c) ==
    IF c.GITHUB_TOKEN = <<>> THEN {K_GITHUB_TOKEN}
    ELSE IF c.GITHUB_OWNER = <<>> THEN {K_GITHUB_OWNER}
    ELSE IF c.DOMAIN_ = <<>> THEN {K_DOMAIN}
    ELSE {}

(***************************************************************************)
(* deploy(): commands                                                      *)
(***************************************************************************)
Steps == 1..8
NotExited == -1

GitCmd == <<"git rev-parse --short HEAD">>

\* every build-time variable is passed, empty or not
build_args_all(c) ==
    << <<"--build-arg ">> \o K_VITE_DATABASE_API_URL \o <<"=">> \o c.VITE_DATABASE_API_URL,
       <<"--build-arg ">> \o K_VITE_API_URL \o <<"=">> \o c.VITE_API_URL,
       <<"--build-arg ">> \o K_VITE_GOOGLE_CLIENT_ID \o <<"=">> \o c.VITE_GOOGLE_CLIENT_ID >>

\* lines 146-152
build_args(c) ==
    (IF c.VITE_DATABASE_API_URL # <<>>
     THEN << <<"--build-arg ">> \o K_VITE_DATABASE_API_URL \o <<"=">> \o c.VITE_DATABASE_API_URL >>
     ELSE <<>>)
    \o (IF c.VITE_API_URL # <<>>
        THEN << <<"--build-arg ">> \o K_VITE_API_URL \o <<"=">> \o c.VITE_API_URL >>
        ELSE <<>>)
    \o (IF c.VITE_GOOGLE_CLIENT_ID # <<>>
        THEN << <<"--build-arg ">> \o K_VITE_GOOGLE_CLIENT_ID \o <<"=">> \o c.VITE_GOOGLE_CLIENT_ID >>
        ELSE <<>>)

build_cmd(c, tag, latest) ==
    <<"docker build --platform linux/amd64 ">> \o Join(build_args(c))
    \o <<" -t ">> \o tag \o <<" -t ">> \o latest \o <<" .">>

LoginCmd(c) ==
    <<"echo ">> \o c.GITHUB_TOKEN \o <<" | docker login ghcr.io -u ">>
    \o c.GITHUB_OWNER \o <<" --password-stdin">>

PushCmd(ref) == <<"docker push ">> \o ref

NamespaceCmd(c) ==
    <<"kubectl create namespace ">> \o c.NAMESPACE
    \o <<" --dry-run=client -o yaml | kubectl apply -f -">>

SecretCmd(c) ==
    <<"kubectl create secret docker-registry ghcr-login-secret -n ">> \o c.NAMESPACE
    \o <<" --docker-server=ghcr.io --docker-username=">> \o c.GITHUB_OWNER
    \o <<" --docker-password=">> \o c.GITHUB_TOKEN
    \o <<" --dry-run=client -o yaml | kubectl apply -f -">>

ApplyCmd == <<"kubectl apply -f -">>

RolloutCmd(c) ==
    <<"kubectl rollout status deployment/">> \o c.SERVICE_NAME \o <<"-app -n ">>
    \o c.NAMESPACE \o <<" --timeout=5m">>

\* image_tag and image_latest of STEP 1
ImageTag(c, git_sha) == c.IMAGE_NAME \o <<":">> \o git_sha
ImageLatestUntagged(c) == c.IMAGE_NAME

ImageLatest(c) == c.IMAGE_NAME \o <<":", "latest">>

\* check=True left out: a non-zero exit is ignored
RaisesNever(ok) == FALSE

\* subprocess.run(..., check=True) raises CalledProcessError on a non-zero exit
Raises(ok) == ~ok

(***************************************************************************)
(* deploy(): manifest                                                      *)
(***************************************************************************)
PRIMARY_MANIFEST == <<"k8s/deployment.yaml">>
FallbackManifest(service_name) == <<"k8s/">> \o service_name \o <<"-deployment.yaml">>

\* the service-specific manifest is preferred to k8s/deployment.yaml
manifest_path_fallback_first(c) ==
    IF Exists(FallbackManifest(c.SERVICE_NAME))
    THEN FallbackManifest(c.SERVICE_NAME) ELSE PRIMARY_MANIFEST

\* lines 201-203: k8s/deployment.yaml, else k8s/{SERVICE_NAME}-deployment.yaml
manifest_path(c) ==
    IF Exists(PRIMARY_MANIFEST) THEN PRIMARY_MANIFEST ELSE FallbackManifest(c.SERVICE_NAME)

T_SERVICE_NAME == <<"DEPLOY_", "SERVICE_", "NAME">>
T_NAMESPACE == <<"DEPLOY_", "NAME", "SPACE">>
T_IMAGE == <<"CONTAINER_", "IMAGE">>
T_DOMAIN == <<"DEPLOY_", "DOMAIN">>

render(template, c, tag) ==
    LET m1 == Replace(template, T_SERVICE_NAME, c.SERVICE_NAME)
        m2 == Replace(m1, T_NAMESPACE, c.NAMESPACE)
        m3 == Replace(m2, T_IMAGE, tag)
    IN  Replace(m3, T_DOMAIN, c.DOMAIN_)

(***************************************************************************)
(* The external tools, as far as the commands above use them.  Each gives  *)
(* [ok, state]: whether the command can succeed from this state, and the   *)
(* state it leaves when it does.                                           *)
(***************************************************************************)
NoLogin == <<>>
PullSecret(c) == <<c.GITHUB_OWNER, c.GITHUB_TOKEN>>

\* docker build -t a -t b .
DockerBuild(store, tag, latest) == [ok |-> TRUE, state |-> store \cup {tag, latest}]

\* docker login -u owner --password-stdin
DockerLogin(c) == [ok |-> TRUE, state |-> <<c.GITHUB_OWNER, c.GITHUB_TOKEN>>]

\* docker push ref: the image must be in the local store and a login stored
DockerPush(reg, store, lg, ref) ==
    [ok |-> ref \in store /\ lg # NoLogin, state |-> reg \cup {ref}]

\* kubectl create namespace N: fails when the namespace exists
CreateNamespace(nss, ns) == [ok |-> ns \notin nss, state |-> nss \cup {ns}]

\* kubectl create namespace N --dry-run=client -o yaml | kubectl apply -f -
ApplyNamespace(nss, ns) == [ok |-> TRUE, state |-> nss \cup {ns}]

\* kubectl create secret ... -n N: fails when the secret exists
CreateSecret(secs, nss, ns, secret) ==
    [ok |-> ns \in nss /\ ns \notin DOMAIN secs,
     state |-> [n \in (DOMAIN secs) \cup {ns} |-> IF n = ns THEN secret ELSE secs[n]]]

\* kubectl create secret ... -n N --dry-run=client -o yaml | kubectl apply -f -
ApplySecret(secs, nss, ns, secret) ==
    [ok |-> ns \in nss,
     state |-> [n \in (DOMAIN secs) \cup {ns} |-> IF n = ns THEN secret ELSE secs[n]]]

\* kubectl apply -f - with the rendered manifest on stdin
ApplyManifest(docs, doc) == [ok |-> TRUE, state |-> Append(docs, doc)]

(***************************************************************************)
(* Inputs                                                                  *)
(***************************************************************************)
MaxRuns == 2

Line(key, value) == key \o <<"=">> \o value

\* a comment that would set the token if comments were read, an empty line,
\* a line without "="
Header == << <<" ", "#", " ">> \o Line(K_GITHUB_TOKEN, <<"old">>), <<>>, <<"novalue">> >>

VPS_PATH == <<"/vps/.env">>

LocalFull ==
    Header
    \o << Line(K_SERVICE_NAME, <<"shop">>),
          <<" ">> \o K_DOMAIN \o <<" ", "=", " ", "shop.example.com", " ">>,
          Line(K_GITHUB_OWNER, <<"acme">>),
          Line(K_GITHUB_TOKEN, <<"tok">>),
          Line(K_VITE_API_URL, <<"https://api">>) >>

\* no token of its own: names the override file that holds it
LocalNoToken ==
    << Line(K_SERVICE_NAME, <<"shop">>),
       Line(K_DOMAIN, <<"shop.example.com">>),
       Line(K_GITHUB_OWNER, <<"acme">>),
       Line(K_VPS_ENV_PATH, VPS_PATH) >>

VpsFile == << Line(K_GITHUB_TOKEN, <<"tok2">>), Line(K_NAMESPACE, <<"prod">>) >>

DefaultFile == << Line(K_GITHUB_TOKEN, <<"tok3">>), Line(K_DOMAIN, <<"shop.example.org">>) >>

Template1 ==
    <<"name: ">> \o T_SERVICE_NAME \o <<"-app", "\n", "namespace: ">> \o T_NAMESPACE
    \o <<"\n", "image: ">> \o T_IMAGE \o <<"\n", "host: ">> \o T_DOMAIN
    \o <<"\n", "alias: www.">> \o T_DOMAIN

Template2 == <<"image: ">> \o T_IMAGE \o <<"\n", "host: ">> \o T_DOMAIN

\* a file system from a set of <<path, content>> pairs
MkFs(pairs) == [p \in {x[1] : x \in pairs} |-> (CHOOSE x \in pairs : x[1] = p)[2]]

File(path, contents) == {{}} \cup {{<<path, c>>} : c \in contents}

FileSystems ==
    {MkFs(l \cup v \cup d \cup p \cup f) :
        l \in File(LOCAL_ENV, {LocalFull, LocalNoToken}),
        v \in File(VPS_PATH, {VpsFile}),
        d \in File(DefaultVpsEnv(<<"shop">>), {DefaultFile}),
        p \in File(PRIMARY_MANIFEST, {Template1}),
        f \in File(FallbackManifest(<<"shop">>), {Template2})}

Environments == {NoEnv, setenv(NoEnv, K_VPS_ENV_PATH, VPS_PATH)}

Revisions == {<<"a1b2c3d", "\n">>}

(***************************************************************************)
(* The process                                                             *)
(***************************************************************************)
NoneStarted == [k \in Steps |-> 0]

ProcessStart ==
    /\ environ = env0
    /\ loaded = <<>>
    /\ pc = "load"
    /\ cfg = NoConfig
    /\ image_tag = <<>>
    /\ image_latest = <<>>
    /\ manifest = <<>>
    /\ calls = <<>>
    /\ started = NoneStarted
    /\ outcome = ""
    /\ named = {}
    /\ failed = <<>>
    /\ stderr = <<>>
    /\ reported = <<>>
    /\ exitCode = NotExited

FreshExternal ==
    /\ images = {}
    /\ login = NoLogin
    /\ registry = {}
    /\ namespaces = {}
    /\ secrets = [n \in {} |-> <<>>]
    /\ applied = <<>>

\* a cluster that an earlier deployment with another credential has used
StaleExternal ==
    /\ images = {}
    /\ login = NoLogin
    /\ registry = {}
    /\ namespaces = {<<"shop">>, <<"prod">>}
    /\ secrets = [n \in {<<"shop">>, <<"prod">>} |-> <<<<"acme">>, <<"old">>>>]
    /\ applied = <<>>

\* the first start of the script
SessionStart ==
    /\ history = <<>>
    /\ external0 = external

Init ==
    /\ fs \in FileSystems
    /\ env0 \in Environments
    /\ gitOut \in Revisions
    /\ runs = 1
    /\ ProcessStart
    /\ (FreshExternal \/ StaleExternal)
    /\ SessionStart
    /\ faulty = 1..MaxRuns

\* sys.exit() without the status
sys_exit_default(code) == 0

\* sys.exit(code)
sys_exit(code) == code

Exit(code, how) == pc' = "exit" /\ exitCode' = code /\ outcome' = how

\* lines 79-83: load_env() and the exit when it returns False
LoadEnv ==
    /\ pc = "load"
    /\ LET r == load_env(environ)
       IN  /\ environ' = r.environ
           /\ loaded' = r.loaded
           /\ IF r.err THEN Exit(sys_exit(1), "Crash")
              ELSE IF ~r.ret THEN Exit(sys_exit(1), "NoConfigurationFound")
              ELSE pc' = "config" /\ UNCHANGED <<exitCode, outcome>>
    /\ UNCHANGED <<world, external, cfg, image_tag, image_latest, manifest, calls,
                   started, named, report, session>>

\* lines 85-108: the configuration constants and their validation
Configure ==
    /\ pc = "config"
    /\ cfg' = configure(environ)
    /\ named' = validate(cfg')
    /\ IF named' # {} THEN Exit(sys_exit(1), "ConfigurationError")
       ELSE pc' = "step1" /\ UNCHANGED <<exitCode, outcome>>
    /\ UNCHANGED <<world, external, environ, loaded, image_tag, image_latest, manifest,
                   calls, started, report, session>>

\* whether the environment makes a command of this run fail
Faults == IF runs \in faulty THEN BOOLEAN ELSE {FALSE}

\* what a failing command wrote to its standard error
Stderrs == {<<>>, <<"denied">>}

\* steps run with text=True have a str in e.stderr, the others bytes
TextSteps == {1, 7}

\* the handler prints no "Error:" line
printed_error_none(k, err) == <<>>

\* lines 250-252: "Error: {e.stderr}" when e.stderr is not empty; the
\* f-string formats bytes as b'...'
printed_error(k, err) ==
    IF err = <<>> THEN <<>>
    ELSE IF k \in TextSteps THEN <<"Error: ">> \o err
    ELSE <<"Error: ", "b'">> \o err \o <<"'">>

Call(k, cmd, fault, ok) == [step |-> k, cmd |-> cmd, fault |-> fault, ok |-> ok]
Begin(k) == started' = [started EXCEPT ![k] = @ + 1]
\* the CalledProcessError handler, lines 248-253
Abort(k, cmd) ==
    /\ Exit(sys_exit(1), "CommandFailed")
    /\ failed' = cmd
    /\ \E err \in Stderrs :
          /\ stderr' = err
          /\ reported' = printed_error(k, err)
Continue(next) == pc' = next /\ UNCHANGED <<exitCode, outcome, report>>

\* STEP 1: git rev-parse, image_tag, image_latest
Step1 ==
    /\ pc = "step1"
    /\ Begin(1)
    /\ \E fault \in Faults :
          LET ok == ~fault
              git_sha == Strip(IF ok THEN gitOut ELSE <<>>)
          IN  /\ calls' = Append(calls, Call(1, GitCmd, fault, ok))
              /\ IF Raises(ok)
                 THEN Abort(1, GitCmd) /\ UNCHANGED <<image_tag, image_latest>>
                 ELSE /\ image_tag' = ImageTag(cfg, git_sha)
                      /\ image_latest' = ImageLatest(cfg)
                      /\ Continue("step2")
    /\ UNCHANGED <<world, external, environ, loaded, cfg, manifest, named, session>>

\* STEP 2: docker build
Step2 ==
    /\ pc = "step2"
    /\ Begin(2)
    /\ \E fault \in Faults :
          LET cmd == build_cmd(cfg, image_tag, image_latest)
              r == DockerBuild(images, image_tag, image_latest)
              ok == ~fault /\ r.ok
          IN  /\ calls' = Append(calls, Call(2, cmd, fault, ok))
              /\ images' = IF ok THEN r.state ELSE images
              /\ IF Raises(ok) THEN Abort(2, cmd) ELSE Continue("step3")
    /\ UNCHANGED <<world, login, registry, namespaces, secrets, applied, environ, loaded,
                   cfg, image_tag, image_latest, manifest, named, session>>

\* STEP 3: docker login
Step3 ==
    /\ pc = "step3"
    /\ Begin(3)
    /\ \E fault \in Faults :
          LET cmd == LoginCmd(cfg)
              r == DockerLogin(cfg)
              ok == ~fault /\ r.ok
          IN  /\ calls' = Append(calls, Call(3, cmd, fault, ok))
              /\ login' = IF ok THEN r.state ELSE login
              /\ IF Raises(ok) THEN Abort(3, cmd) ELSE Continue("step4")
    /\ UNCHANGED <<world, images, registry, namespaces, secrets, applied, environ, loaded,
                   cfg, image_tag, image_latest, manifest, named, session>>

\* STEP 4: docker push of image_tag, then of image_latest
Step4 ==
    /\ pc = "step4"
    /\ Begin(4)
    /\ \E fault1, fault2 \in Faults :
          LET cmd1 == PushCmd(image_tag)
              r1 == DockerPush(registry, images, login, image_tag)
              ok1 == ~fault1 /\ r1.ok
              reg1 == IF ok1 THEN r1.state ELSE registry
              cmd2 == PushCmd(image_latest)
              r2 == DockerPush(reg1, images, login, image_latest)
              ok2 == ~fault2 /\ r2.ok
          IN  IF Raises(ok1)
              THEN /\ calls' = Append(calls, Call(4, cmd1, fault1, ok1))
                   /\ registry' = reg1
                   /\ Abort(4, cmd1)
              ELSE /\ calls' = calls \o <<Call(4, cmd1, fault1, ok1), Call(4, cmd2, fault2, ok2)>>
                   /\ registry' = IF ok2 THEN r2.state ELSE reg1
                   /\ IF Raises(ok2) THEN Abort(4, cmd2) ELSE Continue("step5")
    /\ UNCHANGED <<world, images, login, namespaces, secrets, applied, environ, loaded,
                   cfg, image_tag, image_latest, manifest, named, session>>

\* STEP 5: namespace
Step5 ==
    /\ pc = "step5"
    /\ Begin(5)
    /\ \E fault \in Faults :
          LET cmd == NamespaceCmd(cfg)
              r == ApplyNamespace(namespaces, cfg.NAMESPACE)
              ok == ~fault /\ r.ok
          IN  /\ calls' = Append(calls, Call(5, cmd, fault, ok))
              /\ namespaces' = IF ok THEN r.state ELSE namespaces
              /\ IF Raises(ok) THEN Abort(5, cmd) ELSE Continue("step6")
    /\ UNCHANGED <<world, images, login, registry, secrets, applied, environ, loaded,
                   cfg, image_tag, image_latest, manifest, named, session>>

\* STEP 6: pull secret
Step6 ==
    /\ pc = "step6"
    /\ Begin(6)
    /\ \E fault \in Faults :
          LET cmd == SecretCmd(cfg)
              r == ApplySecret(secrets, namespaces, cfg.NAMESPACE, PullSecret(cfg))
              ok == ~fault /\ r.ok
          IN  /\ calls' = Append(calls, Call(6, cmd, fault, ok))
              /\ secrets' = IF ok THEN r.state ELSE secrets
              /\ IF Raises(ok) THEN Abort(6, cmd) ELSE Continue("step7")
    /\ UNCHANGED <<world, images, login, registry, namespaces, applied, environ, loaded,
                   cfg, image_tag, image_latest, manifest, named, session>>

\* STEP 7: locate the manifest, replace the placeholders, kubectl apply
Step7 ==
    /\ pc = "step7"
    /\ Begin(7)
    /\ LET path == manifest_path(cfg)
       IN  IF ~Exists(path)
           THEN \* raise FileNotFoundError; its handler, lines 254-256
                /\ Exit(sys_exit(1), "ManifestNotFound")
                /\ UNCHANGED <<manifest, calls, applied, report>>
           ELSE \E fault \in Faults :
                   LET doc == render(fs[path], cfg, image_tag)
                       r == ApplyManifest(applied, doc)
                       ok == ~fault /\ r.ok
                   IN  /\ manifest' = doc
                       /\ calls' = Append(calls, Call(7, ApplyCmd, fault, ok))
                       /\ applied' = IF ok THEN r.state ELSE applied
                       /\ IF Raises(ok) THEN Abort(7, ApplyCmd) ELSE Continue("step8")
    /\ UNCHANGED <<world, images, login, registry, namespaces, secrets, environ, loaded,
                   cfg, image_tag, image_latest, named, session>>

\* STEP 8: kubectl rollout status, then the success banner and a normal return
Step8 ==
    /\ pc = "step8"
    /\ Begin(8)
    /\ \E fault \in Faults :
          LET cmd == RolloutCmd(cfg)
              ok == ~fault
          IN  /\ calls' = Append(calls, Call(8, cmd, fault, ok))
              /\ IF Raises(ok) THEN Abort(8, cmd)
                 ELSE Exit(0, "Complete") /\ UNCHANGED report
    /\ UNCHANGED <<world, external, environ, loaded, cfg, image_tag, image_latest,
                   manifest, named, session>>

\* what the operator saw of a run that ended
RunRecord ==
    [outcome |-> outcome,
     step |-> IF outcome = "CommandFailed" THEN calls[Len(calls)].step ELSE 0]

\* the operator runs the script again: same files, same environment, same
\* revision; the registry and the cluster are as the last run left them
Rerun ==
    /\ pc = "exit"
    /\ runs < MaxRuns
    /\ runs' = runs + 1
    /\ environ' = env0
    /\ loaded' = <<>>
    /\ pc' = "load"
    /\ cfg' = NoConfig
    /\ image_tag' = <<>>
    /\ image_latest' = <<>>
    /\ manifest' = <<>>
    /\ calls' = <<>>
    /\ started' = NoneStarted
    /\ outcome' = ""
    /\ named' = {}
    /\ failed' = <<>>
    /\ stderr' = <<>>
    /\ reported' = <<>>
    /\ exitCode' = NotExited
    /\ history' = Append(history, RunRecord)
    /\ UNCHANGED <<world, external>>

Deploy == Step1 \/ Step2 \/ Step3 \/ Step4 \/ Step5 \/ Step6 \/ Step7 \/ Step8

Next == LoadEnv \/ Configure \/ Deploy \/ Rerun

Spec == Init /\ [][Next]_vars

\* a first run in which any command may fail, then re-runs in which the
\* environment makes no command fail; a pipeline that has begun runs to its end
InitRerun ==
    /\ fs \in FileSystems
    /\ env0 \in Environments
    /\ gitOut \in Revisions
    /\ runs = 1
    /\ ProcessStart
    /\ (FreshExternal \/ StaleExternal)
    /\ SessionStart
    /\ faulty = {1}

\* the positions of the process inside deploy()
StepPcs == {"step1", "step2", "step3", "step4", "step5", "step6", "step7", "step8"}

\* the pipeline moves on. Deploy is enabled exactly when pc is in StepPcs and
\* every Deploy step changes pc, so under [][Next]_vars a step of Advance is
\* a step of Deploy and WF_pc(Advance) is weak fairness of Deploy.
Advance == pc \in StepPcs /\ pc' \in StepPcs \cup {"exit"} /\ pc' # pc

SpecRerun == InitRerun /\ [][Next]_vars /\ WF_pc(Advance)

(***************************************************************************)
(* Configuration sources: every combination of set, blank and absent keys  *)
(***************************************************************************)
Blank(key) == Line(key, <<>>)

LocalFiles ==
    {Header \o svc \o ns \o dom \o own \o tok \o vps :
        svc \in {<<>>, <<Line(K_SERVICE_NAME, <<"shop">>)>>, <<Blank(K_SERVICE_NAME)>>},
        ns \in {<<>>, <<Line(K_NAMESPACE, <<" ">>)>>},
        dom \in {<<Line(K_DOMAIN, <<"shop.example.com">>)>>, <<Blank(K_DOMAIN)>>},
        own \in {<<Line(K_GITHUB_OWNER, <<"acme">>)>>, <<Blank(K_GITHUB_OWNER)>>},
        tok \in {<<Line(K_GITHUB_TOKEN, <<"tok">>)>>, <<Blank(K_GITHUB_TOKEN)>>, <<>>},
        vps \in {<<>>, <<Line(K_VPS_ENV_PATH, VPS_PATH)>>}}

\* overrides the token with a blank value
VpsBlank == << Blank(K_GITHUB_TOKEN), Line(K_DOMAIN, <<"shop.example.org">>) >>

\* a line with an empty key
VpsBad == << Line(K_GITHUB_TOKEN, <<"tok2">>), <<"=", "x">> >>

FrontendFile ==
    << Line(K_GITHUB_TOKEN, <<"tok4">>),
       Line(K_GITHUB_OWNER, <<"acme">>),
       Line(K_DOMAIN, <<"www.example.com">>),
       Line(K_GITHUB_TOKEN, <<"tok5">>) >>

ConfigFileSystems ==
    {MkFs(l \cup v \cup d \cup e \cup {<<PRIMARY_MANIFEST, Template1>>}) :
        l \in File(LOCAL_ENV, LocalFiles),
        v \in File(VPS_PATH, {VpsFile, VpsBlank, VpsBad}),
        d \in File(DefaultVpsEnv(<<"shop">>), {DefaultFile}),
        e \in File(DefaultVpsEnv(<<"frontend">>), {FrontendFile})}

InitConfig ==
    /\ fs \in ConfigFileSystems
    /\ env0 \in Environments
    /\ gitOut \in Revisions
    /\ runs = 1
    /\ ProcessStart
    /\ FreshExternal
    /\ SessionStart
    /\ faulty = 1..MaxRuns

\* one run of the script
NextOnce == LoadEnv \/ Configure \/ Deploy

SpecConfig == InitConfig /\ [][NextOnce]_vars

(***************************************************************************)
(* Manifest templates and values: short templates over the placeholder    *)
(* tokens, a prefix of one, an unrecognized placeholder and ordinary text; *)
(* values that are ordinary text, that contain a token, or that complete   *)
(* one with the text before them                                           *)
(***************************************************************************)
MaxPieces == 2

Pieces == {T_SERVICE_NAME, T_NAMESPACE, T_IMAGE, T_DOMAIN,
           <<"CONTAINER_">>, <<"DEPLOY_", "UNKNOWN">>, <<"x: ">>}

RECURSIVE Concat(_)
Concat(parts) == IF parts = <<>> THEN <<>> ELSE Head(parts) \o Concat(Tail(parts))

Templates == {Concat(ps) : ps \in UNION {[1..n -> Pieces] : n \in 0..MaxPieces}}

RenderLocalFiles ==
    {svc \o ns \o dom
     \o << Line(K_GITHUB_OWNER, <<"acme">>), Line(K_GITHUB_TOKEN, <<"tok">>) >> :
        svc \in {<<Line(K_SERVICE_NAME, v)>> : v \in {<<"shop">>, <<"IMAGE">>, T_DOMAIN}},
        ns \in {<<>>, <<Line(K_NAMESPACE, <<"prod">>)>>,
                <<Line(K_NAMESPACE, <<"ns-">> \o T_IMAGE)>>},
        dom \in {<<Line(K_DOMAIN, v)>> : v \in {<<"shop.example.com">>, T_SERVICE_NAME}}}

RenderFileSystems ==
    {MkFs(l \cup p) :
        l \in {{<<LOCAL_ENV, c>>} : c \in RenderLocalFiles},
        p \in {{<<PRIMARY_MANIFEST, t>>} : t \in Templates \cup {Template1, Template2}}}

InitRender ==
    /\ fs \in RenderFileSystems
    /\ env0 = NoEnv
    /\ gitOut \in Revisions
    /\ runs = 1
    /\ ProcessStart
    /\ FreshExternal
    /\ SessionStart
    /\ faulty = 1..MaxRuns

SpecRender == InitRender /\ [][NextOnce]_vars

(***************************************************************************)
(* Inputs that vary the build-time variables                               *)
(***************************************************************************)
\* a variable is absent from the file, blank, or set
Setting(key, value) == {<<>>, <<Blank(key)>>, <<Line(key, value)>>}

BuildLocalFiles ==
    {<< Line(K_SERVICE_NAME, <<"shop">>),
        Line(K_DOMAIN, <<"shop.example.com">>),
        Line(K_GITHUB_OWNER, <<"acme">>),
        Line(K_GITHUB_TOKEN, <<"tok">>) >> \o db \o api \o id :
        db \in Setting(K_VITE_DATABASE_API_URL, <<"https://db">>),
        api \in Setting(K_VITE_API_URL, <<"https://api">>),
        id \in Setting(K_VITE_GOOGLE_CLIENT_ID, <<"id-1">>)}

BuildFileSystems ==
    {MkFs({<<LOCAL_ENV, c>>, <<PRIMARY_MANIFEST, Template2>>}) : c \in BuildLocalFiles}

\* the client id may also come from the environment of the process
BuildEnvironments == {NoEnv, setenv(NoEnv, K_VITE_GOOGLE_CLIENT_ID, <<"id-env">>)}

InitBuild ==
    /\ fs \in BuildFileSystems
    /\ env0 \in BuildEnvironments
    /\ gitOut \in Revisions
    /\ runs = 1
    /\ ProcessStart
    /\ FreshExternal
    /\ SessionStart
    /\ faulty = 1..MaxRuns

SpecBuild == InitBuild /\ [][NextOnce]_vars

(***************************************************************************)
(* Properties                                                              *)
(***************************************************************************)
\* the invocations of a run in which every step succeeds, by step
ExpectedOrder == <<1, 2, 3, 4, 4, 5, 6, 7, 8>>

IsPrefix(s, t) == Len(s) <= Len(t) /\ SubSeq(t, 1, Len(s)) = s
StepsCalled == [i \in 1..Len(calls) |-> calls[i].step]
Failures == {i \in 1..Len(calls) : ~calls[i].ok}
FirstFailure == CHOOSE i \in Failures : \A j \in Failures : i <= j
CallsOf(k) == {i \in 1..Len(calls) : calls[i].step = k}
InvocationsOf(k) == IF k = 4 THEN 2 ELSE 1

\* C1: when the invocation of step k is the first to fail, each of steps
\* 1..k-1 ran exactly once and succeeded, step k ran exactly once and failed,
\* and none of the steps k+1..8 ran; invocations happen in the fixed order.
\* A manifest that is not found ends step 7 before its invocation, after
\* steps 1..6 succeeded, and step 8 does not run.
C1_StepOrdering ==
    /\ IsPrefix(StepsCalled, ExpectedOrder)
    /\ Failures # {} =>
          LET k == calls[FirstFailure].step
          IN  /\ \A j \in 1..(k - 1) :
                    /\ started[j] = 1
                    /\ Cardinality(CallsOf(j)) = InvocationsOf(j)
                    /\ \A i \in CallsOf(j) : calls[i].ok
              /\ started[k] = 1
              /\ FirstFailure = Len(calls)
              /\ \A j \in (k + 1)..8 : started[j] = 0 /\ CallsOf(j) = {}
    /\ outcome = "ManifestNotFound" =>
          /\ Failures = {}
          /\ StepsCalled = SubSeq(ExpectedOrder, 1, 7)
          /\ \A j \in 1..7 : started[j] = 1
          /\ started[8] = 0

C1_Witness ==
    /\ pc = "exit"
    /\ Failures # {}
    /\ calls[FirstFailure].step = 5
    /\ \A j \in 1..5 : started[j] = 1

AllStepsSucceeded ==
    /\ StepsCalled = ExpectedOrder
    /\ Failures = {}
    /\ \A k \in Steps : started[k] = 1

\* C2: the process exits with status 0 exactly when all eight steps ran and
\* succeeded (Complete); every other way of ending gives a non-zero status.
C2_ExitContract ==
    /\ (exitCode = 0) <=> (pc = "exit" /\ AllStepsSucceeded)
    /\ (outcome = "Complete") <=> (exitCode = 0)
    /\ (pc = "exit" /\ ~AllStepsSucceeded) => exitCode \notin {0, NotExited}
    /\ outcome \in {"NoConfigurationFound", "ConfigurationError", "CommandFailed",
                    "ManifestNotFound", "Crash"} => exitCode \notin {0, NotExited}

C2_Witness ==
    /\ exitCode = 0
    /\ outcome = "Complete"
    /\ Len(calls) = 9

\* the revision identifier: what git printed, without the line end
Revision == SelectSeq(gitOut, LAMBDA x : x \notin Whitespace)
RevisionRef == cfg.REGISTRY \o <<"/">> \o cfg.SERVICE_NAME \o <<":">> \o Revision
LatestRef == cfg.REGISTRY \o <<"/">> \o cfg.SERVICE_NAME \o <<":", "latest">>
Pushed(ref) == \E i \in 1..Len(calls) :
                  calls[i].step = 4 /\ calls[i].ok /\ calls[i].cmd = <<"docker push ">> \o ref

\* C9: the two image references are registry/service:revision and
\* registry/service:latest; the namespace step never begins unless both are
\* built and both pushes succeeded; at Complete both are published.
C9_ImageReferences ==
    /\ pc \in {"step2", "step3", "step4", "step5", "step6", "step7", "step8"} =>
          image_tag = RevisionRef /\ image_latest = LatestRef
    /\ started[5] > 0 =>
          /\ {RevisionRef, LatestRef} \subseteq images
          /\ Pushed(RevisionRef) /\ Pushed(LatestRef)
          /\ {RevisionRef, LatestRef} \subseteq registry
    /\ outcome = "Complete" => {RevisionRef, LatestRef} \subseteq registry

C9_Witness ==
    /\ started[5] = 1
    /\ image_tag = <<"ghcr.io/", "acme", "/", "shop", ":", "a1b2c3d">>
    /\ image_latest = <<"ghcr.io/", "acme", "/", "shop", ":", "latest">>
    /\ {image_tag, image_latest} \subseteq registry

\* C10: the namespace step and the pull-secret step, run again with the
\* inputs of an earlier execution, do not fail on their own account, and leave
\* the cluster as the earlier execution left it: the namespace step adds the
\* namespace or changes nothing, the secret step overwrites the secret.
C10_Idempotent ==
    [][ /\ (pc = "step5" /\ pc' # pc) =>
              LET c == calls'[Len(calls')]
              IN  /\ (~c.fault => c.ok)
                  /\ (c.ok => namespaces' = namespaces \cup {cfg.NAMESPACE})
                  /\ (cfg.NAMESPACE \in namespaces => namespaces' = namespaces)
        /\ (pc = "step6" /\ pc' # pc) =>
              LET c == calls'[Len(calls')]
                  ns == cfg.NAMESPACE
              IN  /\ (~c.fault => c.ok)
                  /\ (c.ok => secrets'[ns] = <<cfg.GITHUB_OWNER, cfg.GITHUB_TOKEN>>
                              /\ \A n \in DOMAIN secrets \ {ns} : secrets'[n] = secrets[n])
                  /\ (ns \in DOMAIN secrets /\ secrets[ns] = <<cfg.GITHUB_OWNER, cfg.GITHUB_TOKEN>>
                         => secrets' = secrets)
      ]_vars

\* a second run has passed both steps, over a namespace that existed before
\* the first run and the secret the first run wrote
C10_Witness ==
    /\ runs = 2
    /\ cfg.NAMESPACE = <<"shop">>
    /\ namespaces = {<<"shop">>, <<"prod">>}
    /\ login # NoLogin
    /\ pc = "step7"
    /\ \A i \in 1..Len(calls) : calls[i].ok
    /\ cfg.NAMESPACE \in namespaces
    /\ secrets[cfg.NAMESPACE] = <<cfg.GITHUB_OWNER, cfg.GITHUB_TOKEN>>

(***************************************************************************)
(* Configuration properties                                                *)
(***************************************************************************)
\* the keys a source defines, and the value it gives a key (its last line for it)
Pairs(file) == SelectSeq([i \in 1..Len(file) |-> parse_line(file[i])], LAMBDA kv : kv # NoPair)
Defined(file) == {kv[1] : kv \in Range(Pairs(file))}
ValueIn(file, key) ==
    LET ps == Pairs(file)
        last == CHOOSE i \in 1..Len(ps) :
                    ps[i][1] = key /\ \A j \in (i + 1)..Len(ps) : ps[j][1] # key
    IN  ps[last][2]

Resolved == pc \notin {"load"} /\ outcome \notin {"NoConfigurationFound", "Crash"}
LocalLoaded == Exists(LOCAL_ENV)
OverrideLoaded == Len(loaded) = (IF LocalLoaded THEN 2 ELSE 1)
Local == fs[LOCAL_ENV]
Override == fs[loaded[Len(loaded)]]

\* the configuration record, by the key each field is read from
ConfigValue ==
    [k \in {K_SERVICE_NAME, K_NAMESPACE, K_DOMAIN, K_GITHUB_OWNER, K_GITHUB_TOKEN} |->
        IF k = K_SERVICE_NAME THEN cfg.SERVICE_NAME
        ELSE IF k = K_NAMESPACE THEN cfg.NAMESPACE
        ELSE IF k = K_DOMAIN THEN cfg.DOMAIN_
        ELSE IF k = K_GITHUB_OWNER THEN cfg.GITHUB_OWNER
        ELSE cfg.GITHUB_TOKEN]
Configured == Resolved /\ pc # "config"

\* C3: for every key that the local source and the selected override source
\* both define, the resolved value is the override source's value.
C3_OverridePrecedence ==
    (Resolved /\ LocalLoaded /\ OverrideLoaded) =>
        \A k \in Defined(Local) \cap Defined(Override) :
            /\ k \in DOMAIN environ
            /\ environ[k] = ValueIn(Override, k)
            /\ (Configured /\ k \in DOMAIN ConfigValue) => ConfigValue[k] = ValueIn(Override, k)

C3_Witness ==
    /\ Configured /\ LocalLoaded /\ OverrideLoaded
    /\ K_GITHUB_TOKEN \in Defined(Local) \cap Defined(Override)
    /\ ValueIn(Local, K_GITHUB_TOKEN) = <<"tok">>
    /\ ValueIn(Override, K_GITHUB_TOKEN) = <<"tok2">>
    /\ cfg.GITHUB_TOKEN = <<"tok2">>

\* C4: a key that only the local source defines resolves to the local value,
\* with or without an override source; loading the override removes no key.
C4_NoKeyLoss ==
    Resolved =>
        /\ DOMAIN env0 \subseteq DOMAIN environ
        /\ LocalLoaded =>
              \A k \in Defined(Local) :
                  /\ k \in DOMAIN environ
                  /\ (~OverrideLoaded \/ k \notin Defined(Override)) =>
                        /\ environ[k] = ValueIn(Local, k)
                        /\ (Configured /\ k \in DOMAIN ConfigValue) =>
                              ConfigValue[k] = ValueIn(Local, k)

C4_Witness ==
    /\ Configured /\ LocalLoaded /\ OverrideLoaded
    /\ K_GITHUB_OWNER \in Defined(Local) \ Defined(Override)
    /\ K_GITHUB_TOKEN \in Defined(Override)
    /\ cfg.GITHUB_OWNER = <<"acme">>
    /\ cfg.GITHUB_TOKEN = <<"tok2">>

\* the sources as they are on disk, before anything is loaded
ExplicitPath0 == getenv(IF LocalLoaded /\ K_VPS_ENV_PATH \in Defined(Local)
                        THEN (K_VPS_ENV_PATH :> ValueIn(Local, K_VPS_ENV_PATH))
                        ELSE env0, K_VPS_ENV_PATH, <<>>)
ServiceName0 == getenv(IF LocalLoaded /\ K_SERVICE_NAME \in Defined(Local)
                       THEN (K_SERVICE_NAME :> ValueIn(Local, K_SERVICE_NAME))
                       ELSE env0, K_SERVICE_NAME, <<"frontend">>)
NoSource ==
    /\ ~Exists(LOCAL_ENV)
    /\ ~(ExplicitPath0 # <<>> /\ Exists(ExplicitPath0))
    /\ ~Exists(DefaultVpsEnv(ServiceName0))

\* C5: resolution ends in NoConfigurationFound exactly when neither the local
\* source nor an override source (explicit or derived from the service name)
\* exists.
C5_NoConfigurationFound ==
    (pc # "load" /\ outcome # "Crash") =>
        /\ (outcome = "NoConfigurationFound") <=> NoSource
        /\ (outcome = "NoConfigurationFound") => (pc = "exit" /\ exitCode = 1 /\ loaded = <<>>)

C5_Witness ==
    /\ outcome = "NoConfigurationFound"
    /\ pc = "exit"
    /\ K_VPS_ENV_PATH \in DOMAIN env0
    /\ Exists(DefaultVpsEnv(<<"shop">>))

\* the validated fields that are blank after the merge
Validated == <<K_GITHUB_TOKEN, K_GITHUB_OWNER, K_DOMAIN>>
BlankFields == {k \in Range(Validated) : ConfigValue[k] = <<>>}
FirstBlank == Validated[CHOOSE i \in 1..Len(Validated) :
                           /\ Validated[i] \in BlankFields
                           /\ \A j \in 1..(i - 1) : Validated[j] \notin BlankFields]

\* C6 as claimed: when sources exist and required fields are blank, resolution
\* fails with a ConfigurationError that names every blank required field.
C6_EachMissingNamed ==
    (Configured /\ BlankFields # {}) =>
        /\ outcome = "ConfigurationError"
        /\ BlankFields \subseteq named

\* C6 as amended: when sources exist and one of credential, owner identity and
\* domain is blank, resolution fails with a ConfigurationError that names
\* exactly one field, the first blank one in the order credential, owner
\* identity, domain; when none is blank there is no ConfigurationError.
C6_FirstMissingNamed ==
    Configured =>
        IF BlankFields # {}
        THEN outcome = "ConfigurationError" /\ exitCode = 1 /\ named = {FirstBlank}
        ELSE outcome # "ConfigurationError" /\ named = {}

C6_Witness ==
    /\ outcome = "ConfigurationError"
    /\ BlankFields = {K_GITHUB_TOKEN, K_GITHUB_OWNER, K_DOMAIN}
    /\ named = {K_GITHUB_TOKEN}

\* C7: once a step of deploy() has been invoked, service name, namespace,
\* domain, owner identity and credential are all non-empty.
C7_RequiredNonEmpty ==
    (\E k \in Steps : started[k] > 0) =>
        \A k \in DOMAIN ConfigValue : ConfigValue[k] # <<>>

(***************************************************************************)
(* Manifest properties                                                     *)
(***************************************************************************)
Tokens == {T_SERVICE_NAME, T_NAMESPACE, T_IMAGE, T_DOMAIN}
TokenValue(tk) ==
    IF tk = T_SERVICE_NAME THEN cfg.SERVICE_NAME
    ELSE IF tk = T_NAMESPACE THEN cfg.NAMESPACE
    ELSE IF tk = T_IMAGE THEN image_tag
    ELSE cfg.DOMAIN_
TokenAt(t) == {tk \in Tokens : Len(tk) <= Len(t) /\ SubSeq(t, 1, Len(tk)) = tk}

\* the template with each token occurrence replaced by the token's value and
\* every other symbol kept
RECURSIVE Substituted(_)
Substituted(t) ==
    IF t = <<>> THEN <<>>
    ELSE IF TokenAt(t) # {}
    THEN LET tk == CHOOSE x \in TokenAt(t) : TRUE
         IN  TokenValue(tk) \o Substituted(SubSeq(t, Len(tk) + 1, Len(t)))
    ELSE <<Head(t)>> \o Substituted(Tail(t))

Rendered == started[7] > 0 /\ Exists(manifest_path(cfg))

\* C8: the rendered manifest is the template with every occurrence of the
\* four tokens replaced by its value and every other substring unchanged; a
\* template that lacks tokens renders without error.
C8_RenderReplacesOnlyTokens ==
    Rendered =>
        /\ manifest = Substituted(fs[manifest_path(cfg)])
        /\ outcome # "ManifestNotFound"

(***************************************************************************)
(* The failure report                                                      *)
(***************************************************************************)
BuildPrefix == <<"docker build --platform linux/amd64 ">>
AfterBuild == {3, 4, 5, 6, 7, 8}

\* C11: when a step's command fails, the run ends as CommandFailed, the
\* report names exactly the command of the first failing invocation and
\* carries what that command wrote to its standard error; when the build
\* fails, the report names the build command, the exit status is not 0 and
\* no login, push or apply step has run.
C11_CommandFailedReport ==
    /\ (pc = "exit" /\ Failures # {}) => outcome = "CommandFailed"
    /\ outcome = "CommandFailed" =>
          /\ Failures # {}
          /\ failed = calls[FirstFailure].cmd
          /\ exitCode \notin {0, NotExited}
          /\ stderr # <<>> => Find(reported, stderr) # 0
          /\ calls[FirstFailure].step = 2 =>
                /\ IsPrefix(BuildPrefix, failed)
                /\ Find(failed, <<" -t ">> \o RevisionRef) # 0
                /\ \A k \in AfterBuild : started[k] = 0 /\ CallsOf(k) = {}

C11_Witness ==
    /\ outcome = "CommandFailed"
    /\ calls[Len(calls)].step = 2
    /\ stderr # <<>>
    /\ reported = <<"Error: ", "b'">> \o stderr \o <<"'">>

(***************************************************************************)
(* The manifest file                                                       *)
(***************************************************************************)
\* the manifest files that exist, in the order of preference
Located ==
    SelectSeq(<< <<"k8s/deployment.yaml">>,
                 <<"k8s/">> \o cfg.SERVICE_NAME \o <<"-deployment.yaml">> >>,
              LAMBDA path : Exists(path))

\* C12: step 7 renders the template at k8s/deployment.yaml when that file
\* exists, else the one at k8s/<service name>-deployment.yaml when that
\* exists; when neither exists the run fails as ManifestNotFound, nothing is
\* piped to kubectl apply, no manifest is applied and the rollout step never
\* runs.
C12_ManifestLocation ==
    started[7] > 0 =>
        IF Located = <<>>
        THEN /\ outcome = "ManifestNotFound"
             /\ exitCode \notin {0, NotExited}
             /\ manifest = <<>>
             /\ CallsOf(7) = {} /\ CallsOf(8) = {}
             /\ started[8] = 0
             /\ applied = external0[6]
        ELSE /\ outcome # "ManifestNotFound"
             /\ manifest = render(fs[Located[1]], cfg, image_tag)
             /\ CallsOf(7) # {}

C12_Witness ==
    /\ outcome = "Complete"
    /\ ~Exists(PRIMARY_MANIFEST)
    /\ Len(Located) = 1
    /\ applied # <<>>
    /\ applied[Len(applied)] = render(Template2, cfg, image_tag)

(***************************************************************************)
(* Failure is terminal                                                     *)
(***************************************************************************)
\* nothing that exists in the registry or the cluster is removed
NothingRemoved ==
    /\ images \subseteq images'
    /\ registry \subseteq registry'
    /\ namespaces \subseteq namespaces'
    /\ DOMAIN secrets \subseteq DOMAIN secrets'
    /\ IsPrefix(applied, applied')

\* the invocations a step of the process adds
NewCalls == SubSeq(calls', Len(calls) + 1, Len(calls'))

\* the process ends in failure in this step
Fails == pc # "exit" /\ pc' = "exit" /\ outcome' # "Complete"

Converged ==
    LET refs == {RevisionRef, LatestRef}
        credential == <<cfg.GITHUB_OWNER, cfg.GITHUB_TOKEN>>
    IN  /\ images = external0[1] \cup refs
        /\ login = credential
        /\ registry = external0[3] \cup refs
        /\ namespaces = external0[4] \cup {cfg.NAMESPACE}
        /\ secrets = [n \in (DOMAIN external0[5]) \cup {cfg.NAMESPACE} |->
                         IF n = cfg.NAMESPACE THEN credential ELSE external0[5][n]]
        /\ applied # <<>>
        /\ applied[Len(applied)] = render(fs[Located[1]], cfg, image_tag)

\* the run before this one failed at a command
FailedBefore == history # <<>> /\ history[Len(history)].outcome = "CommandFailed"

\* C14: whatever the step at which the previous run failed, a re-run with
\* the same inputs in which no command is made to fail reaches Complete, and
\* the registry and the cluster are then as after a single run without
\* failure from the initial state (for inputs with which such a run
\* completes: the manifest file exists).
C14_RerunConverges ==
    (pc = "step1" /\ FailedBefore /\ runs \notin faulty /\ Located # <<>>)
        ~> (outcome = "Complete" /\ Converged)

\* the re-run after a failed rollout has applied the manifest a second time
C14_Witness ==
    /\ outcome = "Complete"
    /\ runs \notin faulty
    /\ FailedBefore
    /\ history[Len(history)].step = 8
    /\ Len(applied) >= 2
    /\ Converged

(***************************************************************************)
(* The configuration sources that are loaded                               *)
(***************************************************************************)
DerivedPath0 == <<"/etc/">> \o ServiceName0 \o <<"/.env">>
ExplicitChosen == ExplicitPath0 # <<>> /\ Exists(ExplicitPath0)

\* C15: resolution loads the local source first when it exists, then at most
\* one override source, once: the file at the explicit override path when
\* that is set and exists, otherwise the file at the path derived from the
\* service name when that exists; the derived source is not loaded when the
\* explicit one exists.
C15_OverrideSelection ==
    pc # "load" =>
        loaded = (IF Exists(LOCAL_ENV) THEN <<LOCAL_ENV>> ELSE <<>>)
                 \o (IF ExplicitChosen THEN <<ExplicitPath0>>
                     ELSE IF Exists(DerivedPath0) THEN <<DerivedPath0>>
                     ELSE <<>>)

\* the explicit override and the derived source both exist
C15_Witness ==
    /\ pc # "load"
    /\ ExplicitChosen
    /\ Exists(DerivedPath0)
    /\ DerivedPath0 # ExplicitPath0
    /\ loaded = <<LOCAL_ENV, ExplicitPath0>>

(***************************************************************************)
(* The build command                                                       *)
(***************************************************************************)
BuildVars == {K_VITE_DATABASE_API_URL, K_VITE_API_URL, K_VITE_GOOGLE_CLIENT_ID}

\* the value of a build-time variable after resolution: the local file's
\* when the file defines the key, else the environment's, else empty
BuildValue(key) ==
    IF key \in Defined(Local) THEN ValueIn(Local, key) ELSE getenv(env0, key, <<>>)

BuildArg(key) == <<"--build-arg ">> \o key \o <<"=">>

\* C16: the build command holds "--build-arg KEY=value" for a build-time
\* variable exactly when its resolved value is not empty (an unset or blank
\* variable is not passed, so never as an empty value), and it always holds
\* both "-t" tags, the revision one and the latest one.
C16_BuildInvocation ==
    \A i \in CallsOf(2) :
        /\ \A key \in BuildVars :
              /\ BuildValue(key) # <<>> <=> Find(calls[i].cmd, BuildArg(key)) # 0
              /\ BuildValue(key) # <<>> =>
                    Find(calls[i].cmd, BuildArg(key) \o BuildValue(key) \o <<" ">>) # 0
                    \/ Find(calls[i].cmd, BuildArg(key) \o BuildValue(key) \o <<" -t ">>) # 0
        /\ Find(calls[i].cmd,
                <<" -t ">> \o RevisionRef \o <<" -t ">> \o LatestRef \o <<" .">>) # 0

\* one variable set, one blank, one absent
C16_Witness ==
    /\ CallsOf(2) # {}
    /\ BuildValue(K_VITE_API_URL) = <<"https://api">>
    /\ K_VITE_DATABASE_API_URL \in Defined(Local)
    /\ BuildValue(K_VITE_DATABASE_API_URL) = <<>>
    /\ K_VITE_GOOGLE_CLIENT_ID \notin Defined(Local) \cup DOMAIN env0
    /\ calls[1 + 1].cmd =
          <<"docker build --platform linux/amd64 ", "--build-arg ", "VITE_", "API_URL", "=",
            "https://api", " -t ">> \o RevisionRef \o <<" -t ">> \o LatestRef \o <<" .">>

\* the tokens that occur in the template
Occurring == {tk \in Tokens : Find(fs[manifest_path(cfg)], tk) # 0}

\* C17: substitution is literal: the value inserted for a token that occurs
\* in the template is found in the rendered manifest exactly as configured,
\* not altered by the substitution of another token, also when the value
\* holds another token.
C17_InsertedValuesLiteral ==
    Rendered => \A tk \in Occurring : Find(manifest, TokenValue(tk)) # 0

\* C18: when the manifest is piped to kubectl apply, the image reference
\* that stands in it for CONTAINER_IMAGE is the revision reference computed
\* in step 1, which this run has built in step 2 and pushed with success in
\* step 4.
C18_AppliedImagePushed ==
    (CallsOf(7) # {} /\ T_IMAGE \in Occurring) =>
        /\ image_tag = RevisionRef
        /\ \E j \in CallsOf(2) :
              calls[j].ok /\ Find(calls[j].cmd, <<" -t ">> \o RevisionRef) # 0
        /\ Pushed(RevisionRef)
        /\ Find(manifest, RevisionRef) # 0

(***************************************************************************)
(* Configuration comes before the pipeline                                 *)
(***************************************************************************)
\* no external command has been invoked and nothing outside has changed
Quiet ==
    /\ calls = <<>>
    /\ started = NoneStarted
    /\ external = external0

\* C19: the configuration is resolved and validated before the pipeline
\* starts: when no configuration source exists, or the token, the owner or
\* the domain resolves to empty, the process exits with a failure without
\* having invoked any command, the revision query included, and the registry
\* and the cluster are as before; a command is only ever invoked with the
\* three validated fields non-empty.
C19_ConfigBeforePipeline ==
    /\ (pc # "load" /\ NoSource) => Quiet /\ outcome = "NoConfigurationFound"
    /\ (Configured /\ BlankFields # {}) => Quiet /\ outcome = "ConfigurationError"
    /\ outcome \in {"NoConfigurationFound", "ConfigurationError"} =>
          Quiet /\ exitCode \notin {0, NotExited}
    /\ (calls # <<>> \/ started # NoneStarted) => Configured /\ BlankFields = {}

\* the owner is blank and the token is not: validation stopped the process
C19_Witness ==
    /\ outcome = "ConfigurationError"
    /\ cfg.GITHUB_TOKEN # <<>>
    /\ cfg.GITHUB_OWNER = <<>>
    /\ Quiet

====
